---- MODULE Spec2Model ----
(***************************************************************************)
(* Foodler: the fridge inventory store (foodler/database/fridge_db.py) and *)
(* the multi-source nutrition aggregator                                   *)
(* (foodler/scrapers/nutrition_scraper.py with its two provider clients).  *)
(*                                                                         *)
(* The store is modelled at the level of one SQLAlchemy session over one   *)
(* SQLite file: `db` is what is committed in the file, `sess` is what the  *)
(* session sees (the committed rows plus its own pending changes).  Every  *)
(* public method is one action.                                            *)
(***************************************************************************)
EXTENDS Integers, Sequences, FiniteSets, TLC

VARIABLES
    db,         \* committed rows of table food_items: id -> row
    sess,       \* rows as seen through self.session (committed + pending)
    clock,      \* the value datetime.now(timezone.utc) last returned
    issued,     \* history: every id add_item has returned so far
    last,       \* the last store call: its name, arguments and result
    usda,       \* NutritionScraper.usda is not None
    call,       \* the last aggregator call: queries made, outcome, result
    needs,      \* DEFAULT_DAILY_NEEDS and each calculator's daily_needs
    calc,       \* the last calculator call: its arguments and result
    hist        \* history of the store calls, kept for the properties

storeVars == <<db, sess, clock, issued, last>>
aggVars == <<usda, call>>
calcVars == <<needs, calc>>
vars == <<db, sess, clock, issued, last, usda, call, needs, calc, hist>>

-----------------------------------------------------------------------------
(* Bounds of the model *)

MaxItems == 2       \* largest id the store hands out
MaxMeals == 2       \* meals_without is not incremented beyond this
MaxTime == 2        \* the clock does not advance beyond this
RotItems == 3       \* largest id in the rotation-only specification
RotMeals == 1       \* cap of meals_without in the rotation-only specification
MaxLimit == 2       \* largest limit passed to search_foods
MaxFound == 2       \* most results one provider sends for one search
MaxEntries == 2     \* most meals of a meal plan, most entries of an inventory
MaxFoods == 2       \* most foods of a meal and of the foods on offer

-----------------------------------------------------------------------------
(* FoodItem rows *)

\* last_used_date = Column(DateTime): absent (None / SQL NULL) until first use
NULL == 0

Max(S) == CHOOSE x \in S : \A y \in S : y <= x

Min2(a, b) == IF a <= b THEN a ELSE b

\* FoodItem(name=..., quantity=..., unit=..., calories=..., meals_without=0);
\* calories stands for the columns that only the INSERT writes (calories,
\* protein, carbs, fats, added_date)
NewItem(name, quantity, unit, calories) ==
    [name |-> name, quantity |-> quantity, unit |-> unit, calories |-> calories,
     meals_without |-> 0, last_used_date |-> NULL]

NoRows == [i \in {} |-> NewItem("", 0, "", NULL)]

Put(rows, id, row) ==
    [i \in DOMAIN rows \cup {id} |-> IF i = id THEN row ELSE rows[i]]

\* a variant of Remove that keeps the row
RemoveNone(rows, id) == rows

Remove(rows, id) == [i \in DOMAIN rows \ {id} |-> rows[i]]

\* a variant of NextId that numbers by the count of rows
NextIdByCount(rows) == Cardinality(DOMAIN rows) + 1

\* id = Column(Integer, primary_key=True) on SQLite: an alias of the rowid
\* without AUTOINCREMENT, so a new row gets the largest id in use plus one
NextId(rows) == IF DOMAIN rows = {} THEN 1 ELSE Max(DOMAIN rows) + 1

\* the record of a call: the method, its item_id or limit argument (arg), its
\* exclude_ids (excl), whether it returned (ok) or raised, the ids of the rows
\* it returned (out) and, for get_items_to_use, the id that the call just
\* before it marked as used (after, 0 when that call was no such call)
StoreCall(op, arg, excl, ok, out) ==
    [op |-> op, arg |-> arg, excl |-> excl, after |-> 0, ok |-> ok, out |-> out]

NoCall == StoreCall("__init__", 0, {}, TRUE, <<>>)

-----------------------------------------------------------------------------
(* The rotation query *)

\* a variant of DateBefore that sorts NULL after every date
DateBeforeNullsLast(a, b) ==
    \/ a # NULL /\ b = NULL
    \/ a # NULL /\ b # NULL /\ a < b

\* FoodItem.last_used_date.asc().nullsfirst(): NULL before every date
DateBefore(a, b) ==
    \/ a = NULL /\ b # NULL
    \/ a # NULL /\ b # NULL /\ a < b

\* a variant of RowBefore that sorts meals_without in ascending order
RowBeforeAscending(r, s) ==
    \/ r.meals_without < s.meals_without
    \/ r.meals_without = s.meals_without
         /\ DateBefore(r.last_used_date, s.last_used_date)

\* ORDER BY meals_without DESC, last_used_date ASC NULLS FIRST: r strictly
\* before s
RowBefore(r, s) ==
    \/ r.meals_without > s.meals_without
    \/ r.meals_without = s.meals_without
         /\ DateBefore(r.last_used_date, s.last_used_date)

\* a variant of Firsts without the ORDER BY: the row with the smallest id
FirstsById(rows, ids) == {i \in ids : \A j \in ids : i <= j}

\* the rows among `ids` that no other row of `ids` must precede
Firsts(rows, ids) == {i \in ids : \A j \in ids : ~RowBefore(rows[j], rows[i])}

\* every order of the rows `ids` that ORDER BY may produce: rows equal on
\* both keys come in any order
RECURSIVE Ordered(_, _)
Ordered(rows, ids) ==
    IF ids = {} THEN {<<>>}
    ELSE UNION {{<<i>> \o t : t \in Ordered(rows, ids \ {i})} : i \in Firsts(rows, ids)}

Orderings(rows) == Ordered(rows, DOMAIN rows)

\* a variant of Limited without the limit
Unlimited(s, limit) == s

\* .limit(limit).all()
Limited(s, limit) == SubSeq(s, 1, Min2(limit, Len(s)))

-----------------------------------------------------------------------------
(* Store operations *)

InitStore ==
    /\ db = NoRows
    /\ sess = NoRows
    /\ clock = 1
    /\ issued = {}
    /\ last = NoCall

\* add_item: no check of name or quantity; session.add, session.commit
add_item(name, quantity, unit, calories, cap) ==
    LET id == NextId(sess) IN
    /\ id <= cap
    /\ sess' = Put(sess, id, NewItem(name, quantity, unit, calories))
    /\ db' = sess'
    /\ issued' = issued \cup {id}
    /\ last' = StoreCall("add_item", 0, {}, TRUE, <<id>>)
    /\ UNCHANGED clock

\* session.query(FoodItem).all(): the rows in rowid order
AllIds(rows) ==
    LET n == Cardinality(DOMAIN rows) IN
    CHOOSE s \in [1..n -> DOMAIN rows] : \A i, j \in 1..n : i < j => s[i] < s[j]

get_all_items ==
    /\ last' = StoreCall("get_all_items", 0, {}, TRUE, AllIds(sess))
    /\ UNCHANGED <<db, sess, clock, issued>>

\* FoodItem.name.like(f'%{name}%') on the names of the model: the empty
\* pattern matches every name, another one the names that contain it
Like(name, pattern) == pattern = "" \/ name = pattern

\* the ids in `ids` in rowid order
RECURSIVE InIdOrder(_)
InIdOrder(ids) ==
    IF ids = {} THEN <<>>
    ELSE LET m == Max(ids) IN Append(InIdOrder(ids \ {m}), m)

\* get_item_by_name: the rows whose name matches, nothing written; the call
\* is recorded with 0 for the pattern "" and 1 for "milk", 2 for "oat"
get_item_by_name(name) ==
    /\ last' = StoreCall("get_item_by_name",
                         IF name = "" THEN 0 ELSE IF name = "milk" THEN 1 ELSE 2, {}, TRUE,
                         InIdOrder({i \in DOMAIN sess : Like(sess[i].name, name)}))
    /\ UNCHANGED <<db, sess, clock, issued>>

\* update_quantity: no check of new_quantity; commit only when found
update_quantity(item_id, new_quantity) ==
    IF item_id \in DOMAIN sess
    THEN /\ sess' = [sess EXCEPT ![item_id].quantity = new_quantity]
         /\ db' = sess'
         /\ last' = StoreCall("update_quantity", item_id, {}, TRUE, <<item_id>>)
         /\ UNCHANGED <<clock, issued>>
    ELSE /\ last' = StoreCall("update_quantity", item_id, {}, TRUE, <<>>)
         /\ UNCHANGED <<db, sess, clock, issued>>

\* a variant of delete_item that deletes the first row when item_id is not
\* there
delete_item_or_first(item_id) ==
    IF DOMAIN sess # {}
    THEN LET id == IF item_id \in DOMAIN sess THEN item_id
                   ELSE CHOOSE x \in DOMAIN sess : \A y \in DOMAIN sess : x <= y
         IN  /\ sess' = [i \in DOMAIN sess \ {id} |-> sess[i]]
             /\ db' = sess'
             /\ last' = StoreCall("delete_item", item_id, {}, TRUE,
                                  IF item_id \in DOMAIN sess THEN <<item_id>> ELSE <<>>)
             /\ UNCHANGED <<clock, issued>>
    ELSE /\ last' = StoreCall("delete_item", item_id, {}, TRUE, <<>>)
         /\ UNCHANGED <<db, sess, clock, issued>>

\* delete_item: True (out = <<item_id>>) when a row was found and deleted
delete_item(item_id) ==
    IF item_id \in DOMAIN sess
    THEN /\ sess' = Remove(sess, item_id)
         /\ db' = sess'
         /\ last' = StoreCall("delete_item", item_id, {}, TRUE, <<item_id>>)
         /\ UNCHANGED <<clock, issued>>
    ELSE /\ last' = StoreCall("delete_item", item_id, {}, TRUE, <<>>)
         /\ UNCHANGED <<db, sess, clock, issued>>

\* get_items_to_use(limit)
get_items_to_use(limit) ==
    /\ \E s \in Orderings(sess) :
          last' = [StoreCall("get_items_to_use", limit, {}, TRUE, Limited(s, limit))
                     EXCEPT !.after = IF last.op = "mark_as_used" /\ last.out # <<>>
                                      THEN last.arg ELSE 0]
    /\ UNCHANGED <<db, sess, clock, issued>>

\* a variant of Used that leaves the date as it is
UsedWithoutDate(row, now) == [row EXCEPT !.meals_without = 0]

\* a variant of Used that leaves the counter as it is
UsedKeepingCounter(row, now) == [row EXCEPT !.last_used_date = now]

\* item.last_used_date = now; item.meals_without = 0
Used(row, now) == [row EXCEPT !.last_used_date = now, !.meals_without = 0]

\* a variant of mark_as_used without the commit
mark_as_used_uncommitted(item_id) ==
    IF item_id \in DOMAIN sess
    THEN \E now \in clock..MaxTime :
         /\ clock' = now
         /\ sess' = [sess EXCEPT ![item_id] = Used(sess[item_id], now)]
         /\ last' = StoreCall("mark_as_used", item_id, {}, TRUE, <<item_id>>)
         /\ UNCHANGED <<db, issued>>
    ELSE /\ last' = StoreCall("mark_as_used", item_id, {}, TRUE, <<>>)
         /\ UNCHANGED <<db, sess, clock, issued>>

\* mark_as_used: datetime.now() is at or after its previous reading
mark_as_used(item_id) ==
    IF item_id \in DOMAIN sess
    THEN \E now \in clock..MaxTime :
         /\ clock' = now
         /\ sess' = [sess EXCEPT ![item_id] = Used(sess[item_id], now)]
         /\ db' = sess'
         /\ last' = StoreCall("mark_as_used", item_id, {}, TRUE, <<item_id>>)
         /\ UNCHANGED issued
    ELSE /\ last' = StoreCall("mark_as_used", item_id, {}, TRUE, <<>>)
         /\ UNCHANGED <<db, sess, clock, issued>>

\* a variant of Selected that ignores exclude_ids
SelectedAll(rows, exclude_ids) == DOMAIN rows

\* the rows the query of increment_meals_without selects:
\* filter(~FoodItem.id.in_(exclude_ids) if exclude_ids else True)
Selected(rows, exclude_ids) ==
    IF exclude_ids # {} THEN DOMAIN rows \ exclude_ids ELSE DOMAIN rows

\* a variant of Incremented that adds 2
IncrementedByTwo(rows, ids) ==
    [i \in DOMAIN rows |->
        IF i \in ids
        THEN [rows[i] EXCEPT !.meals_without = rows[i].meals_without + 2]
        ELSE rows[i]]

\* for item in items: item.meals_without += 1, over the rows in `ids`
Incremented(rows, ids) ==
    [i \in DOMAIN rows |->
        IF i \in ids
        THEN [rows[i] EXCEPT !.meals_without = rows[i].meals_without + 1]
        ELSE rows[i]]

\* increment_meals_without: query, loop, commit
increment_meals_without(exclude_ids, cap) ==
    LET items == Selected(sess, exclude_ids) IN
    /\ \A i \in items : sess[i].meals_without < cap
    /\ sess' = Incremented(sess, items)
    /\ db' = sess'
    /\ last' = StoreCall("increment_meals_without", 0, exclude_ids, TRUE, <<>>)
    /\ UNCHANGED <<clock, issued>>

\* increment_meals_without left by an exception raised inside its loop after
\* the rows in `done` were incremented: the method has no except or rollback,
\* so the changed rows stay pending in the session and nothing is committed
increment_meals_without_raises(exclude_ids, done, cap) ==
    LET items == Selected(sess, exclude_ids) IN
    /\ done \subseteq items
    /\ done # items
    /\ \A i \in items : sess[i].meals_without < cap
    /\ sess' = Incremented(sess, done)
    /\ last' = StoreCall("increment_meals_without", 0, exclude_ids, FALSE, <<>>)
    /\ UNCHANGED <<db, clock, issued>>

\* close() and then FridgeDatabase(db_path) on the same file: session.close()
\* drops what was pending, create_all finds the table, and the new session
\* sees the committed rows
reopen ==
    /\ sess' = db
    /\ last' = StoreCall("__init__", 0, {}, TRUE, <<>>)
    /\ UNCHANGED <<db, clock, issued>>

-----------------------------------------------------------------------------
(* The calculators and the history before any call *)

\* NutritionCalculator.DEFAULT_DAILY_NEEDS; every amount of the calculator is
\* kept in hundredths (2000 kcal is 200000)
DEFAULT_DAILY_NEEDS ==
    [calories |-> 200000, protein |-> 5000, carbs |-> 27500, fats |-> 7000,
     fiber |-> 2500]

\* the calculator instances of the model
Calculators == {1, 2}

\* NutritionCalculator(): daily_needs is None, so each instance gets its own
\* copy of DEFAULT_DAILY_NEEDS
InitCalc ==
    /\ needs = [default |-> DEFAULT_DAILY_NEEDS,
                inst |-> [k \in Calculators |-> DEFAULT_DAILY_NEEDS]]
    /\ calc = [op |-> "__init__"]

\* history of the calls on the store. Per stored item, the
\* increment_meals_without calls made (made) and those that returned
\* (returned), since the item was added or last marked as used, whose
\* exclude_ids did not hold its id; the ids marked by the mark_as_used calls
\* since the last increment_meals_without (marked); <<U>> once the marks of U
\* were followed by an increment_meals_without(U) that returned (served); the
\* meals of a rotation and the items they used (meals, fed)
NoHistory ==
    [made |-> <<>>, returned |-> <<>>, marked |-> {}, served |-> <<>>, meals |-> 0,
     fed |-> {}]

\* the history after the call `c` that left the rows `rows` in the session
Recorded(h, c, rows) ==
    LET ids == DOMAIN rows
        Kept(f) == [i \in ids |-> IF i \in DOMAIN f THEN f[i] ELSE 0]
        Reset(f, id) == [i \in ids |-> IF i = id \/ i \notin DOMAIN f THEN 0 ELSE f[i]]
        Passed(f) == [i \in ids |-> IF i \in c.excl THEN f[i] ELSE f[i] + 1]
    IN  CASE c.op = "add_item" ->
               [h EXCEPT !.made = Reset(h.made, c.out[1]),
                         !.returned = Reset(h.returned, c.out[1]),
                         !.marked = {}, !.served = <<>>]
          [] c.op = "delete_item" ->
               [h EXCEPT !.made = Kept(h.made), !.returned = Kept(h.returned),
                         !.marked = {}, !.served = <<>>]
          [] c.op = "mark_as_used" /\ c.out # <<>> ->
               [h EXCEPT !.made = Reset(h.made, c.arg),
                         !.returned = Reset(h.returned, c.arg),
                         !.marked = h.marked \cup {c.arg}, !.served = <<>>]
          [] c.op = "increment_meals_without" ->
               [h EXCEPT !.made = Passed(h.made),
                         !.returned = IF c.ok THEN Passed(h.returned) ELSE h.returned,
                         !.marked = {},
                         !.served = IF c.ok /\ c.excl = h.marked
                                    THEN <<h.marked>> ELSE <<>>]
          [] OTHER -> h

-----------------------------------------------------------------------------
(* Specifications of the store *)

\* ids a caller may pass: those the store can hold and one it never holds
Ids(cap) == 1..(cap + 1)
Limits(cap) == 0..(cap + 1)
Patterns == {"", "milk", "oat"}

Init ==
    /\ InitStore
    /\ usda = FALSE
    /\ call = <<>>
    /\ InitCalc
    /\ hist = NoHistory

\* the store driven with well-formed items, every method
Next ==
    \/ /\ add_item("milk", 1, "l", NULL, MaxItems)
       /\ UNCHANGED <<aggVars, calcVars, hist>>
    \/ /\ get_all_items
       /\ UNCHANGED <<aggVars, calcVars, hist>>
    \/ /\ \E id \in Ids(MaxItems) : update_quantity(id, 1)
       /\ UNCHANGED <<aggVars, calcVars, hist>>
    \/ /\ \E id \in Ids(MaxItems) : delete_item(id)
       /\ UNCHANGED <<aggVars, calcVars, hist>>
    \/ /\ \E limit \in Limits(MaxItems) : get_items_to_use(limit)
       /\ UNCHANGED <<aggVars, calcVars, hist>>
    \/ /\ \E id \in Ids(MaxItems) : mark_as_used(id)
       /\ UNCHANGED <<aggVars, calcVars, hist>>
    \/ /\ \E excl \in SUBSET Ids(MaxItems) : increment_meals_without(excl, MaxMeals)
       /\ UNCHANGED <<aggVars, calcVars, hist>>
    \/ /\ \E name \in Patterns : get_item_by_name(name)
       /\ UNCHANGED <<aggVars, calcVars, hist>>
    \/ /\ reopen
       /\ UNCHANGED <<aggVars, calcVars, hist>>

Spec == Init /\ [][Next]_vars

\* the rotation alone, over more items: items are added, used, passed over
\* and listed
NextRotation ==
    \/ /\ add_item("milk", 1, "l", NULL, RotItems)
       /\ UNCHANGED <<aggVars, calcVars, hist>>
    \/ /\ \E limit \in {1, RotItems} : get_items_to_use(limit)
       /\ UNCHANGED <<aggVars, calcVars, hist>>
    \/ /\ \E id \in 1..RotItems : mark_as_used(id)
       /\ UNCHANGED <<aggVars, calcVars, hist>>
    \/ /\ \E excl \in SUBSET (1..RotItems) : increment_meals_without(excl, RotMeals)
       /\ UNCHANGED <<aggVars, calcVars, hist>>

SpecRotation == Init /\ [][NextRotation]_vars

\* every method, and increment_meals_without may be left by an exception
NextFault ==
    \/ Next
    \/ /\ \E excl \in SUBSET Ids(MaxItems) : \E done \in SUBSET Ids(MaxItems) :
             increment_meals_without_raises(excl, done, MaxMeals)
       /\ UNCHANGED <<aggVars, calcVars, hist>>

SpecFault == Init /\ [][NextFault]_vars

\* the store with the history of its calls: items are added, deleted, used,
\* passed over and listed
NextHistory ==
    \/ /\ add_item("milk", 1, "l", NULL, MaxItems)
       /\ hist' = Recorded(hist, last', sess')
       /\ UNCHANGED <<aggVars, calcVars>>
    \/ /\ \E id \in 1..MaxItems : delete_item(id)
       /\ hist' = Recorded(hist, last', sess')
       /\ UNCHANGED <<aggVars, calcVars>>
    \/ /\ \E limit \in {1, MaxItems} : get_items_to_use(limit)
       /\ hist' = Recorded(hist, last', sess')
       /\ UNCHANGED <<aggVars, calcVars>>
    \/ /\ \E id \in Ids(MaxItems) : mark_as_used(id)
       /\ hist' = Recorded(hist, last', sess')
       /\ UNCHANGED <<aggVars, calcVars>>
    \/ /\ \E excl \in SUBSET (1..MaxItems) : increment_meals_without(excl, MaxMeals)
       /\ hist' = Recorded(hist, last', sess')
       /\ UNCHANGED <<aggVars, calcVars>>

SpecHistory == Init /\ [][NextHistory]_vars

\* the same, a quantity may be set, and increment_meals_without may be left
\* by an exception
NextHistoryFault ==
    \/ NextHistory
    \/ /\ update_quantity(1, 1)
       /\ hist' = Recorded(hist, last', sess')
       /\ UNCHANGED <<aggVars, calcVars>>
    \/ /\ \A i \in DOMAIN hist.made : hist.made[i] < MaxMeals
       /\ \E excl \in SUBSET (1..MaxItems) : \E done \in SUBSET (1..MaxItems) :
             increment_meals_without_raises(excl, done, MaxMeals)
       /\ hist' = Recorded(hist, last', sess')
       /\ UNCHANGED <<aggVars, calcVars>>

SpecHistoryFault == Init /\ [][NextHistoryFault]_vars

\* every store a run can leave behind with the ids 1..n: any counter, used
\* at time 1 or never
Stores(n) ==
    [1..n -> {[NewItem("milk", 1, "l", NULL) EXCEPT !.meals_without = m,
                                                    !.last_used_date = d] :
                 m \in 0..RotMeals, d \in {NULL, 1}}]

InitMeals ==
    /\ \E n \in 1..RotItems : \E rows \in Stores(n) :
          /\ db = rows
          /\ sess = rows
          /\ issued = 1..n
    /\ clock = 1
    /\ last = NoCall
    /\ usda = FALSE
    /\ call = <<>>
    /\ InitCalc
    /\ hist = NoHistory

\* the history after a meal that used the item `id`
Fed(h, id) == [h EXCEPT !.meals = h.meals + 1, !.fed = h.fed \cup {id}]

\* the rotation as example_usage.py drives it, over a fixed set of items, for
\* as many meals as there are items: the first item of get_items_to_use(1)
\* is marked as used and the others are passed over
NextMeals ==
    \/ /\ hist.meals < Cardinality(DOMAIN sess)
       /\ last.op \in {"__init__", "increment_meals_without"}
       /\ get_items_to_use(1)
       /\ UNCHANGED <<aggVars, calcVars, hist>>
    \/ /\ last.op = "get_items_to_use"
       /\ last.out # <<>>
       /\ mark_as_used(last.out[1])
       /\ UNCHANGED <<aggVars, calcVars, hist>>
    \/ /\ last.op = "mark_as_used"
       /\ increment_meals_without({last.arg}, RotMeals + RotItems)
       /\ hist' = Fed(hist, last.arg)
       /\ UNCHANGED <<aggVars, calcVars>>

SpecMeals == InitMeals /\ [][NextMeals]_vars

\* the mutating methods called with any name and quantity
Names == {"", "milk"}
Quantities == {-1, 1}

NextInput ==
    \/ /\ \E name \in Names : \E quantity \in Quantities :
             add_item(name, quantity, "l", NULL, MaxItems)
       /\ UNCHANGED <<aggVars, calcVars, hist>>
    \/ /\ \E id \in Ids(MaxItems) : \E quantity \in Quantities :
             update_quantity(id, quantity)
       /\ UNCHANGED <<aggVars, calcVars, hist>>
    \/ /\ \E id \in Ids(MaxItems) : delete_item(id)
       /\ UNCHANGED <<aggVars, calcVars, hist>>
    \/ /\ \E id \in Ids(MaxItems) : mark_as_used(id)
       /\ UNCHANGED <<aggVars, calcVars, hist>>
    \/ /\ \E excl \in SUBSET Ids(MaxItems) : increment_meals_without(excl, MaxMeals)
       /\ UNCHANGED <<aggVars, calcVars, hist>>

SpecInput == Init /\ [][NextInput]_vars

-----------------------------------------------------------------------------
(* Provider clients: what an HTTP exchange can bring back *)

\* the value of the calories entry of a product (energy-kcal_100g, Energy):
\* a number, not there, or there and no number (a string, null)
Num(v) == [tag |-> "num", v |-> v]
KcalAbsent == [tag |-> "absent", v |-> 0]
KcalNotNumber == [tag |-> "not_number", v |-> 0]
KcalValues == {KcalAbsent, KcalNotNumber, Num(0), Num(52), Num(120)}

\* one exchange: a requests.RequestException (timeout, HTTP status, body that
\* is no JSON), a JSON body that is no object, an object without results, or
\* an object whose first result has a nutrient table that is a table, is not
\* there, or is null
Response(kind, nutriments, kcal) ==
    [kind |-> kind, nutriments |-> nutriments, kcal |-> kcal]

Responses ==
    {Response(k, "absent", KcalAbsent) : k \in {"request_error", "not_object", "empty"}}
    \cup {Response("item", n, KcalAbsent) : n \in {"absent", "null"}}
    \cup {Response("item", "dict", c) : c \in KcalValues}

\* Python None and a nutrition dictionary
None == [source |-> "None", calories |-> KcalAbsent]
Record(source, calories) == [source |-> source, calories |-> calories]

\* a call that returned a value, and one left by an uncaught exception
Returned(value) == [raised |-> FALSE, value |-> value]
Raised == [raised |-> TRUE, value |-> None]
Found(products) == [raised |-> FALSE, products |-> products]
SearchRaised == [raised |-> TRUE, products |-> <<>>]

\* nutriments.get(key, 0.0): the default only when the key is not there
GetOrZero(kcal) == IF kcal.tag = "absent" THEN Num(0) ELSE kcal

\* OpenFoodFactsAPI.search_products: only requests.RequestException is caught
OFF_search_products(resp) ==
    IF resp.kind = "request_error" THEN Found(<<>>)
    ELSE IF resp.kind = "not_object" THEN SearchRaised
    ELSE IF resp.kind = "empty" THEN Found(<<>>)
    ELSE Found(<<resp>>)

\* the dictionary both OpenFoodFactsAPI lookups build from products[0];
\* product.get('nutriments', {}) is None for a null table, and None.get raises
OFF_record(products) ==
    IF products = <<>> THEN Returned(None)
    ELSE IF products[1].nutriments = "null" THEN Raised
    ELSE IF products[1].nutriments = "absent"
         THEN Returned(Record("Open Food Facts", Num(0)))
    ELSE Returned(Record("Open Food Facts", GetOrZero(products[1].kcal)))

\* OpenFoodFactsAPI.get_nutrition_info
OFF_get_nutrition_info(resp) ==
    LET found == OFF_search_products(resp) IN
    IF found.raised THEN Raised ELSE OFF_record(found.products)

\* OpenFoodFactsAPI.get_detailed_info
OFF_get_detailed_info(resp) ==
    LET found == OFF_search_products(resp) IN
    IF found.raised THEN Raised ELSE OFF_record(found.products)

\* USDAFoodDataAPI.search_foods, the key being set
USDA_search_foods(resp) ==
    IF resp.kind = "request_error" THEN Found(<<>>)
    ELSE IF resp.kind = "not_object" THEN SearchRaised
    ELSE IF resp.kind = "empty" THEN Found(<<>>)
    ELSE Found(<<resp>>)

\* USDAFoodDataAPI.get_nutrition_info: iterating a null foodNutrients raises
USDA_get_nutrition_info(resp) ==
    LET found == USDA_search_foods(resp) IN
    IF found.raised THEN Raised
    ELSE IF found.products = <<>> THEN Returned(None)
    ELSE IF found.products[1].nutriments = "null" THEN Raised
    ELSE IF found.products[1].nutriments = "absent"
         THEN Returned(Record("USDA FoodData Central", Num(0)))
    ELSE Returned(Record("USDA FoodData Central", GetOrZero(found.products[1].kcal)))

\* USDAFoodDataAPI.get_food_by_id: None (here <<>>) on a RequestException,
\* else the body
USDA_get_food_by_id(resp) ==
    IF resp.kind = "request_error" THEN <<>> ELSE <<resp>>

\* USDAFoodDataAPI.get_detailed_info: search_foods, then get_food_by_id on
\* the exchange resp2; an empty body is falsy, a body that is no object has
\* no get, iterating a null foodNutrients raises
USDA_get_detailed_info(resp, resp2) ==
    LET found == USDA_search_foods(resp)
        full_food == USDA_get_food_by_id(resp2)
    IN  IF found.raised THEN Raised
        ELSE IF found.products = <<>> THEN Returned(None)
        ELSE IF full_food = <<>> THEN Returned(None)
        ELSE IF full_food[1].kind = "empty" THEN Returned(None)
        ELSE IF full_food[1].kind = "not_object" THEN Raised
        ELSE IF full_food[1].nutriments = "null" THEN Raised
        ELSE IF full_food[1].nutriments = "absent"
             THEN Returned(Record("USDA FoodData Central", Num(0)))
        ELSE Returned(Record("USDA FoodData Central", GetOrZero(full_food[1].kcal)))

-----------------------------------------------------------------------------
(* The aggregator, NutritionScraper *)

\* __init__: self.usda is set only when the usda module imported and a key
\* was passed
UsdaConfigured(available, usda_api_key) == available /\ usda_api_key # ""

\* one HTTP exchange of a call, and the call's record: the exchanges in
\* order, whether the call raised, and what it returned
Query(provider, resp) == [provider |-> provider, resp |-> resp]
Outcome(queried, raised, result) ==
    [queried |-> queried, raised |-> raised, result |-> result]

\* a variant of Accepted that takes a record with zero calories
AcceptedFromZero(nutrition) == nutrition # None /\ nutrition.calories.v >= 0

\* nutrition and nutrition.get('calories', 0) > 0
Accepted(nutrition) == nutrition # None /\ nutrition.calories.v > 0

\* the comparison with 0 raises TypeError when calories is no number
CompareRaises(nutrition) == nutrition # None /\ nutrition.calories.tag # "num"

\* a variant of nutrition_info that asks USDA whatever Open Food Facts said
nutrition_info_asking_both(u, r1, r2) ==
    LET off == OFF_get_nutrition_info(r1)
        us == USDA_get_nutrition_info(r2)
        q == <<Query("Open Food Facts", r1), Query("USDA FoodData Central", r2)>>
    IN  IF off.raised \/ CompareRaises(off.value) \/ us.raised \/ CompareRaises(us.value)
        THEN Outcome(q, TRUE, None)
        ELSE IF Accepted(off.value) THEN Outcome(q, FALSE, off.value)
        ELSE IF Accepted(us.value) THEN Outcome(q, FALSE, us.value)
        ELSE Outcome(q, FALSE, None)

\* NutritionScraper.get_nutrition_info on the exchanges r1 (Open Food Facts)
\* and r2 (USDA, when asked)
nutrition_info(u, r1, r2) ==
    LET off == OFF_get_nutrition_info(r1)
        q1 == <<Query("Open Food Facts", r1)>>
    IN  IF off.raised \/ CompareRaises(off.value) THEN Outcome(q1, TRUE, None)
        ELSE IF Accepted(off.value) THEN Outcome(q1, FALSE, off.value)
        ELSE IF ~u THEN Outcome(q1, FALSE, None)
        ELSE LET us == USDA_get_nutrition_info(r2)
                 q2 == Append(q1, Query("USDA FoodData Central", r2))
             IN  IF us.raised \/ CompareRaises(us.value) THEN Outcome(q2, TRUE, None)
                 ELSE IF Accepted(us.value) THEN Outcome(q2, FALSE, us.value)
                 ELSE Outcome(q2, FALSE, None)

\* a variant of detailed_info that wants calories above zero, as
\* get_nutrition_info does
detailed_info_with_threshold(u, r1, r2, r3) ==
    LET off == OFF_get_detailed_info(r1)
        q1 == <<Query("Open Food Facts", r1)>>
    IN  IF off.raised THEN Outcome(q1, TRUE, None)
        ELSE IF Accepted(off.value) THEN Outcome(q1, FALSE, off.value)
        ELSE IF ~u THEN Outcome(q1, FALSE, None)
        ELSE LET us == USDA_get_detailed_info(r2, r3)
                 q2 == Append(q1, Query("USDA FoodData Central", r2))
                 q3 == IF USDA_search_foods(r2).raised \/ USDA_search_foods(r2).products = <<>>
                       THEN q2
                       ELSE Append(q2, Query("USDA FoodData Central", r3))
             IN  IF us.raised THEN Outcome(q3, TRUE, None)
                 ELSE IF Accepted(us.value) THEN Outcome(q3, FALSE, us.value)
                 ELSE Outcome(q3, FALSE, None)

\* NutritionScraper.get_detailed_info on the exchanges r1 (Open Food Facts),
\* r2 and r3 (USDA search and USDA food, when asked)
detailed_info(u, r1, r2, r3) ==
    LET off == OFF_get_detailed_info(r1)
        q1 == <<Query("Open Food Facts", r1)>>
    IN  IF off.raised THEN Outcome(q1, TRUE, None)
        ELSE IF off.value # None THEN Outcome(q1, FALSE, off.value)
        ELSE IF ~u THEN Outcome(q1, FALSE, None)
        ELSE LET us == USDA_get_detailed_info(r2, r3)
                 q2 == Append(q1, Query("USDA FoodData Central", r2))
                 q3 == IF USDA_search_foods(r2).raised \/ USDA_search_foods(r2).products = <<>>
                       THEN q2
                       ELSE Append(q2, Query("USDA FoodData Central", r3))
             IN  IF us.raised THEN Outcome(q3, TRUE, None)
                 ELSE Outcome(q3, FALSE, us.value)

\* the answer to a search: a RequestException, a JSON body that is no object,
\* or an object with n results; the provider, not the client, decides n
SearchResponse(kind, n) == [kind |-> kind, n |-> n]
SearchResponses ==
    {SearchResponse(k, 0) : k \in {"request_error", "not_object"}}
    \cup {SearchResponse("list", n) : n \in 0..MaxFound}

\* 'page_size': min(page_size, 100) and 'pageSize': min(page_size, 200)
OffPageCap == 100
UsdaPageCap == 200

\* n results of one provider, as search_foods appends them
Entries(source, n) == [k \in 1..n |-> source]

\* OpenFoodFactsAPI.search_products for any page_size: data.get('products', [])
OFF_search_page(resp) ==
    IF resp.kind = "request_error" THEN Found(<<>>)
    ELSE IF resp.kind = "not_object" THEN SearchRaised
    ELSE Found(Entries("Open Food Facts", resp.n))

\* USDAFoodDataAPI.search_foods for any page_size: data.get('foods', [])
USDA_search_page(resp) ==
    IF resp.kind = "request_error" THEN Found(<<>>)
    ELSE IF resp.kind = "not_object" THEN SearchRaised
    ELSE Found(Entries("USDA FoodData Central", resp.n))

\* one search exchange: the page size the client sent and the answer
SearchQuery(provider, page_size, resp) ==
    [provider |-> provider, page_size |-> page_size, resp |-> resp]

\* results[:limit] for limit >= 0
Sliced(results, limit) == SubSeq(results, 1, Min2(limit, Len(results)))

\* a variant of found_foods that asks USDA whenever it is there, for a full
\* page
found_foods_asking_always(u, limit, r1, r2) ==
    LET off == OFF_search_page(r1)
        q1 == <<SearchQuery("Open Food Facts", Min2(limit, OffPageCap), r1)>>
    IN  IF off.raised THEN Outcome(q1, TRUE, <<>>)
        ELSE IF ~u THEN Outcome(q1, FALSE, Sliced(off.products, limit))
        ELSE LET us == USDA_search_page(r2)
                 q2 == Append(q1, SearchQuery("USDA FoodData Central",
                                              Min2(limit, UsdaPageCap), r2))
             IN  IF us.raised THEN Outcome(q2, TRUE, <<>>)
                 ELSE Outcome(q2, FALSE, Sliced(off.products \o us.products, limit))

\* NutritionScraper.search_foods on the exchanges r1 (Open Food Facts) and r2
\* (USDA, when asked)
found_foods(u, limit, r1, r2) ==
    LET off == OFF_search_page(r1)
        q1 == <<SearchQuery("Open Food Facts", Min2(limit, OffPageCap), r1)>>
    IN  IF off.raised THEN Outcome(q1, TRUE, <<>>)
        ELSE IF ~(Len(off.products) < limit /\ u)
             THEN Outcome(q1, FALSE, Sliced(off.products, limit))
        ELSE LET us == USDA_search_page(r2)
                 q2 == Append(q1, SearchQuery("USDA FoodData Central",
                                  Min2(limit - Len(off.products), UsdaPageCap), r2))
             IN  IF us.raised THEN Outcome(q2, TRUE, <<>>)
                 ELSE Outcome(q2, FALSE, Sliced(off.products \o us.products, limit))

\* OpenFoodFactsAPI.get_product_by_barcode: the product when status is 1,
\* None on a RequestException and for every other status; a body that is no
\* object has no get
OFF_get_product_by_barcode(resp) ==
    IF resp.kind = "request_error" THEN Found(<<>>)
    ELSE IF resp.kind = "not_object" THEN SearchRaised
    ELSE IF resp.kind = "empty" THEN Found(<<>>)
    ELSE Found(<<resp>>)

\* a variant of product_by_barcode that turns to USDA when Open Food Facts
\* has no product
product_by_barcode_with_fallback(u, r1, r2) ==
    LET off == OFF_get_product_by_barcode(r1)
        q1 == <<Query("Open Food Facts", r1)>>
        rec == OFF_record(off.products)
    IN  IF off.raised \/ rec.raised THEN Outcome(q1, TRUE, None)
        ELSE IF rec.value # None \/ ~u THEN Outcome(q1, FALSE, rec.value)
        ELSE LET us == USDA_get_nutrition_info(r2)
                 q2 == Append(q1, Query("USDA FoodData Central", r2))
             IN  Outcome(q2, us.raised, us.value)

\* NutritionScraper.get_product_by_barcode on the exchange r1; self.usda (u)
\* and a second exchange (r2) are never looked at
product_by_barcode(u, r1, r2) ==
    LET off == OFF_get_product_by_barcode(r1)
        q1 == <<Query("Open Food Facts", r1)>>
        rec == OFF_record(off.products)
    IN  IF off.raised \/ rec.raised THEN Outcome(q1, TRUE, None)
        ELSE Outcome(q1, FALSE, rec.value)

AggCall(op, outcome) ==
    [op |-> op, queried |-> outcome.queried, raised |-> outcome.raised,
     result |-> outcome.result]

get_nutrition_info ==
    /\ \E r1 \in Responses : \E r2 \in Responses :
          call' = AggCall("get_nutrition_info", nutrition_info(usda, r1, r2))
    /\ UNCHANGED usda

get_detailed_info ==
    /\ \E r1 \in Responses : \E r2 \in Responses : \E r3 \in Responses :
          call' = AggCall("get_detailed_info", detailed_info(usda, r1, r2, r3))
    /\ UNCHANGED usda

\* search_foods(query, limit): the call record also holds the limit
search_foods ==
    /\ \E limit \in 0..MaxLimit : \E r1 \in SearchResponses : \E r2 \in SearchResponses :
          LET outcome == found_foods(usda, limit, r1, r2) IN
          call' = [op |-> "search_foods", limit |-> limit, queried |-> outcome.queried,
                   raised |-> outcome.raised, result |-> outcome.result]
    /\ UNCHANGED usda

get_product_by_barcode ==
    /\ \E r1 \in Responses : \E r2 \in Responses :
          call' = AggCall("get_product_by_barcode", product_by_barcode(usda, r1, r2))
    /\ UNCHANGED usda

\* self.usda after __init__: the client is built only when the module
\* imported and a key was passed, and a constructor that raises leaves None
UsdaAfterInit(available, usda_api_key, ctor_raises) ==
    UsdaConfigured(available, usda_api_key) /\ ~ctor_raises

InitAgg ==
    /\ InitStore
    /\ usda \in {UsdaAfterInit(available, key, ctor_raises) :
                    available \in BOOLEAN, key \in {"", "KEY"}, ctor_raises \in BOOLEAN}
    /\ call = AggCall("__init__", Outcome(<<>>, FALSE, None))
    /\ InitCalc
    /\ hist = NoHistory

NextAgg ==
    \/ /\ get_nutrition_info
       /\ UNCHANGED <<storeVars, calcVars, hist>>
    \/ /\ get_detailed_info
       /\ UNCHANGED <<storeVars, calcVars, hist>>
    \/ /\ search_foods
       /\ UNCHANGED <<storeVars, calcVars, hist>>
    \/ /\ get_product_by_barcode
       /\ UNCHANGED <<storeVars, calcVars, hist>>

SpecAgg == InitAgg /\ [][NextAgg]_vars

-----------------------------------------------------------------------------
(* NutritionCalculator.create_shopping_list *)

\* names and units are text; a text is kept as the sequence of its characters
\* so that the key can be built and split as the code does
Text_r == <<"r">>
Text_r_f == <<"r", "_", "f">>
Text_g == <<"g">>
Text_f_g == <<"f", "_", "g">>

\* an ingredient of a meal, an entry of the inventory, an entry of the list
Entry(name, quantity, unit) == [name |-> name, quantity |-> quantity, unit |-> unit]

\* the (name, unit) pairs of the model: a plain one and two whose texts hold
\* an underscore
Pairs == {<<Text_r, Text_g>>, <<Text_r, Text_f_g>>, <<Text_r_f, Text_g>>}

Ingredients == {Entry(p[1], q, p[2]) : p \in Pairs, q \in {100, 200}}
InventoryItems == {Entry(p[1], q, p[2]) : p \in Pairs, q \in {100, 150}}

\* the ingredient lists a meal may hold
MealIngredients ==
    {<<>>} \cup {<<i>> : i \in Ingredients}
    \cup {<<Entry(Text_r, 100, Text_g), Entry(Text_r, 200, Text_g)>>}

\* every sequence over S of length at most n
SeqsUpTo(S, n) == UNION {[1..m -> S] : m \in 0..n}

\* key = f"{name}_{unit}"
Key(name, unit) == name \o <<"_">> \o unit

\* key.rsplit('_', 1): the text before and the text after the last underscore
RSplit(key) ==
    LET at == Max({k \in 1..Len(key) : key[k] = "_"})
    IN  <<SubSeq(key, 1, at - 1), SubSeq(key, at + 1, Len(key))>>

\* the ingredients of all meals, in the order the two loops visit them
RECURSIVE Flattened(_)
Flattened(meal_plan) ==
    IF meal_plan = <<>> THEN <<>>
    ELSE Head(meal_plan) \o Flattened(Tail(meal_plan))

\* needed_items after the loops: a dict, kept as the sequence of its
\* (key, quantity) entries in insertion order;
\* needed_items[key] = needed_items.get(key, 0) + quantity
RECURSIVE Needed(_)
Needed(ingredients) ==
    IF ingredients = <<>> THEN <<>>
    ELSE LET n == Len(ingredients)
             before == Needed(SubSeq(ingredients, 1, n - 1))
             key == Key(ingredients[n].name, ingredients[n].unit)
             quantity == ingredients[n].quantity
         IN  IF \E k \in 1..Len(before) : before[k].key = key
             THEN [k \in 1..Len(before) |->
                     IF before[k].key = key
                     THEN [key |-> key, qty |-> before[k].qty + quantity]
                     ELSE before[k]]
             ELSE Append(before, [key |-> key, qty |-> quantity])

\* a variant of Available that adds up the entries of one key
AvailableSummed(fridge_inventory, key) ==
    LET RECURSIVE Sum(_)
        Sum(n) == IF n = 0 THEN 0
                  ELSE Sum(n - 1) +
                       (IF Key(fridge_inventory[n].name, fridge_inventory[n].unit) = key
                        THEN fridge_inventory[n].quantity ELSE 0)
    IN  Sum(Len(fridge_inventory))

\* inventory_dict.get(key, 0): the dict comprehension keeps, for a key that
\* comes more than once, the quantity of the last entry
Available(fridge_inventory, key) ==
    LET hits == {k \in 1..Len(fridge_inventory) :
                    Key(fridge_inventory[k].name, fridge_inventory[k].unit) = key}
    IN  IF hits = {} THEN 0 ELSE fridge_inventory[Max(hits)].quantity

\* the loop over needed_items: an entry when needed_qty > available_qty
RECURSIVE ToBuy(_, _)
ToBuy(needed, fridge_inventory) ==
    IF needed = <<>> THEN <<>>
    ELSE LET n == Len(needed)
             before == ToBuy(SubSeq(needed, 1, n - 1), fridge_inventory)
             available_qty == Available(fridge_inventory, needed[n].key)
             name_unit == RSplit(needed[n].key)
         IN  IF needed[n].qty > available_qty
             THEN Append(before, Entry(name_unit[1], needed[n].qty - available_qty,
                                       name_unit[2]))
             ELSE before

shopping_list(meal_plan, fridge_inventory) ==
    ToBuy(Needed(Flattened(meal_plan)), fridge_inventory)

\* a call of create_shopping_list that was made and has not returned yet
ShopCall(meal_plan, fridge_inventory) ==
    [op |-> "create_shopping_list", done |-> FALSE, meal_plan |-> meal_plan,
     fridge_inventory |-> fridge_inventory, result |-> <<>>]

create_shopping_list ==
    /\ calc.op = "create_shopping_list"
    /\ ~calc.done
    /\ calc' = [calc EXCEPT !.done = TRUE,
                            !.result = shopping_list(calc.meal_plan, calc.fridge_inventory)]
    /\ UNCHANGED needs

\* one calculator, called with any meal plan and inventory of the model
InitShop ==
    /\ InitStore
    /\ usda = FALSE
    /\ call = <<>>
    /\ hist = NoHistory
    /\ needs = [default |-> DEFAULT_DAILY_NEEDS,
                inst |-> [k \in Calculators |-> DEFAULT_DAILY_NEEDS]]
    /\ \E meal_plan \in SeqsUpTo(MealIngredients, MaxEntries) :
          \E fridge_inventory \in SeqsUpTo(InventoryItems, MaxEntries) :
             calc = ShopCall(meal_plan, fridge_inventory)

NextShop ==
    /\ create_shopping_list
    /\ UNCHANGED <<storeVars, aggVars, hist>>

SpecShop == InitShop /\ [][NextShop]_vars

-----------------------------------------------------------------------------
(* NutritionCalculator: daily needs, meal balance, suggestions *)

\* round(x, 2) of the amount a / b, in hundredths: the nearest whole number
\* of hundredths. Half way between two of them the float that stands for
\* a / b lies a little to one side, which side the model does not hold, and
\* round() goes to that side: either of the two
Rounded(a, b) ==
    LET q == a \div b
        r == a % b
    IN  IF 2 * r < b THEN {q}
        ELSE IF 2 * r > b THEN {q + 1}
        ELSE {q, q + 1}

\* str.lower() on the texts of the model
Lower(text) ==
    CASE text = "Male" -> "male"
      [] text = "FEMALE" -> "female"
      [] text = "Active" -> "active"
      [] OTHER -> text

\* the Harris-Benedict equation, in thousandths of a kcal
BMR(age, weight, height, gender) ==
    IF Lower(gender) = "male"
    THEN 88362 + 13397 * weight + 4799 * height - 5677 * age
    ELSE 447593 + 9247 * weight + 3098 * height - 4330 * age

\* activity_multipliers, in thousandths
activity_multipliers ==
    [sedentary |-> 1200, light |-> 1375, moderate |-> 1550, active |-> 1725,
     very_active |-> 1900]

\* a variant of Multiplier that takes the highest coefficient for a level
\* that is not in the table
MultiplierDefaultingHigh(activity_level) ==
    IF Lower(activity_level) \in DOMAIN activity_multipliers
    THEN activity_multipliers[Lower(activity_level)]
    ELSE 1900

\* activity_multipliers.get(activity_level.lower(), 1.2)
Multiplier(activity_level) ==
    IF Lower(activity_level) \in DOMAIN activity_multipliers
    THEN activity_multipliers[Lower(activity_level)]
    ELSE 1200

\* the profiles set_custom_needs can compute; every coefficient is a
\* multiple of 0.025, so daily_calories is bmr * (multiplier / 25) / 40000 kcal
custom_needs(age, weight, height, gender, activity_level) ==
    LET bmr == BMR(age, weight, height, gender)
        daily == bmr * (Multiplier(activity_level) \div 25)
    IN  {[calories |-> calories, protein |-> protein, carbs |-> carbs, fats |-> fats,
          fiber |-> IF Lower(gender) = "female" THEN 2500 ELSE 3800] :
            calories \in Rounded(daily, 400), protein \in Rounded(daily * 7, 64000),
            carbs \in Rounded(daily * 11, 32000), fats \in Rounded(daily * 11, 144000)}

\* a variant of Stored that writes the profile into the one dictionary all
\* calculators would share
StoredInShared(profiles, k, profile) ==
    [default |-> profile, inst |-> [j \in DOMAIN profiles.inst |-> profile]]

\* self.daily_needs = {...}: calculator k is bound to a new dictionary
Stored(profiles, k, profile) == [profiles EXCEPT !.inst[k] = profile]

set_custom_needs(k, age, weight, height, gender, activity_level) ==
    \E profile \in custom_needs(age, weight, height, gender, activity_level) :
    /\ needs' = Stored(needs, k, profile)
    /\ calc' = [op |-> "set_custom_needs", k |-> k, age |-> age, weight |-> weight,
                height |-> height, gender |-> gender,
                activity_level |-> activity_level, result |-> profile]

Nutrients == {"calories", "protein", "carbs", "fats"}

\* a food: a name, a quantity in grams and the content per 100 g
Food(name, quantity, calories, protein, carbs, fats, fiber) ==
    [name |-> name, quantity |-> quantity, calories |-> calories,
     protein |-> protein, carbs |-> carbs, fats |-> fats, fiber |-> fiber]

\* a variant of Totals that takes every food as 100 g
TotalsPer100g(foods) ==
    LET RECURSIVE Sum(_, _)
        Sum(n, nutrient) == IF n = 0 THEN 0 ELSE Sum(n - 1, nutrient) + foods[n][nutrient] * 100
    IN  [nutrient \in Nutrients |-> Sum(Len(foods), nutrient)]

\* totals[nutrient] += food.get(nutrient, 0) * (quantity / 100), in hundredths
Totals(foods) ==
    LET RECURSIVE Sum(_, _)
        Sum(n, nutrient) ==
            IF n = 0 THEN 0
            ELSE Sum(n - 1, nutrient) + foods[n][nutrient] * foods[n].quantity
    IN  [nutrient \in Nutrients |-> Sum(Len(foods), nutrient)]

\* round((totals[nutrient] / daily_needs[nutrient]) * 100, 2), in hundredths
\* of a percent
Percentages(totals, daily_needs) ==
    LET percent(nutrient) == Rounded(totals[nutrient] * 10000, daily_needs[nutrient])
    IN  {[nutrient \in Nutrients |->
             CASE nutrient = "calories" -> calories
               [] nutrient = "protein" -> protein
               [] nutrient = "carbs" -> carbs
               [] nutrient = "fats" -> fats] :
            calories \in percent("calories"), protein \in percent("protein"),
            carbs \in percent("carbs"), fats \in percent("fats")}

\* target = 33.33 and the default of tolerance, in hundredths
target == 3333
tolerance == 1500

\* a variant of IsBalanced that leaves the two ends of the band out
IsBalancedInside(percentages) ==
    \A nutrient \in DOMAIN percentages :
        /\ target - tolerance < percentages[nutrient]
        /\ percentages[nutrient] < target + tolerance

\* _is_balanced: all(target - tolerance <= percent <= target + tolerance)
IsBalanced(percentages) ==
    \A nutrient \in DOMAIN percentages :
        /\ target - tolerance <= percentages[nutrient]
        /\ percentages[nutrient] <= target + tolerance

calculate_meal_balance(k, foods) ==
    LET totals == Totals(foods) IN
    \E percentages \in Percentages(totals, needs.inst[k]) :
        /\ calc' = [op |-> "calculate_meal_balance", k |-> k, foods |-> foods,
                    totals |-> totals, percentages |-> percentages,
                    daily_needs |-> needs.inst[k],
                    is_balanced |-> IsBalanced(percentages)]
        /\ UNCHANGED needs

\* the keys of daily_needs in the order the dictionary holds them
NeedKeys == <<"calories", "protein", "carbs", "fats", "fiber">>

\* max(0, self.daily_needs[nutrient] - current_intake.get(nutrient, 0))
Deficits(daily_needs, current_intake) ==
    [nutrient \in {NeedKeys[k] : k \in 1..Len(NeedKeys)} |->
        IF daily_needs[nutrient] > current_intake[nutrient]
        THEN daily_needs[nutrient] - current_intake[nutrient] ELSE 0]

\* max(deficits.items(), key=...)[0]: the first key that has the largest value
PrimaryDeficit(deficits) ==
    LET best == Max({deficits[n] : n \in DOMAIN deficits})
        at == CHOOSE k \in 1..Len(NeedKeys) :
                 /\ deficits[NeedKeys[k]] = best
                 /\ \A j \in 1..(k - 1) : deficits[NeedKeys[j]] # best
    IN  NeedKeys[at]

\* sorted(foods_available, key=content, reverse=True): descending and stable
RECURSIVE Ranked(_, _)
Ranked(foods, nutrient) ==
    IF foods = <<>> THEN <<>>
    ELSE LET top == Max({foods[k][nutrient] : k \in 1..Len(foods)})
             at == CHOOSE k \in 1..Len(foods) :
                      /\ foods[k][nutrient] = top
                      /\ \A j \in 1..(k - 1) : foods[j][nutrient] # top
             rest == [k \in 1..(Len(foods) - 1) |-> IF k < at THEN foods[k] ELSE foods[k + 1]]
         IN  <<foods[at]>> \o Ranked(rest, nutrient)

Suggestion(name, suggested_quantity, nutrient, content) ==
    [name |-> name, suggested_quantity |-> suggested_quantity,
     nutrient |-> nutrient, provides |-> content]

\* a variant of Suggested over every ranked food
SuggestedOfAll(ranked, nutrient, needed) ==
    LET RECURSIVE Pick(_)
        Pick(n) ==
            IF n = 0 THEN {<<>>}
            ELSE IF ranked[n][nutrient] > 0
                 THEN {Append(before, Suggestion(ranked[n].name, suggested_quantity,
                                                 nutrient, ranked[n][nutrient])) :
                          before \in Pick(n - 1),
                          suggested_quantity \in Rounded(needed * 100, ranked[n][nutrient])}
                 ELSE Pick(n - 1)
    IN  Pick(Len(ranked))

\* the loop over ranked_foods[:3]: a suggestion for each food whose content is
\* above zero, with round((needed / content_per_100g) * 100, 2); every list
\* the roundings allow
Suggested(ranked, nutrient, needed) ==
    LET RECURSIVE Pick(_)
        Pick(n) ==
            IF n = 0 THEN {<<>>}
            ELSE IF ranked[n][nutrient] > 0
                 THEN {Append(before, Suggestion(ranked[n].name, suggested_quantity,
                                                 nutrient, ranked[n][nutrient])) :
                          before \in Pick(n - 1),
                          suggested_quantity \in Rounded(needed * 100, ranked[n][nutrient])}
                 ELSE Pick(n - 1)
    IN  Pick(Min2(3, Len(ranked)))

suggestions(daily_needs, current_intake, foods_available) ==
    LET deficits == Deficits(daily_needs, current_intake) IN
    IF Max({deficits[n] : n \in DOMAIN deficits}) = 0 THEN {<<>>}
    ELSE LET primary_deficit == PrimaryDeficit(deficits) IN
         Suggested(Ranked(foods_available, primary_deficit), primary_deficit,
                   deficits[primary_deficit])

suggest_foods_to_balance(k, current_intake, foods_available) ==
    \E result \in suggestions(needs.inst[k], current_intake, foods_available) :
    /\ calc' = [op |-> "suggest_foods_to_balance", k |-> k,
                current_intake |-> current_intake, foods_available |-> foods_available,
                daily_needs |-> needs.inst[k], result |-> result]
    /\ UNCHANGED needs

\* a call of _is_balanced that was made and has not returned yet
BalanceCall(percentages) ==
    [op |-> "_is_balanced", done |-> FALSE, percentages |-> percentages,
     result |-> FALSE]

is_balanced ==
    /\ calc.op = "_is_balanced"
    /\ ~calc.done
    /\ calc' = [calc EXCEPT !.done = TRUE, !.result = IsBalanced(calc.percentages)]
    /\ UNCHANGED needs

\* percentages at, next to and away from the two ends of the band
PercentValues == {1832, 1833, 3333, 4833, 4834, 5000}

InitBalance ==
    /\ InitStore
    /\ usda = FALSE
    /\ call = <<>>
    /\ hist = NoHistory
    /\ needs = [default |-> DEFAULT_DAILY_NEEDS,
                inst |-> [k \in Calculators |-> DEFAULT_DAILY_NEEDS]]
    /\ \E percentages \in [Nutrients -> PercentValues] : calc = BalanceCall(percentages)

NextBalance ==
    /\ is_balanced
    /\ UNCHANGED <<storeVars, aggVars, hist>>

SpecBalance == InitBalance /\ [][NextBalance]_vars

\* the people, genders and activity levels set_custom_needs is called with
Person(age, weight, height) == [age |-> age, weight |-> weight, height |-> height]
Persons == {Person(30, 70, 175), Person(60, 55, 160)}
Genders == {"male", "Male", "female", "FEMALE", "other"}
ActivityLevels ==
    {"sedentary", "light", "moderate", "active", "very_active", "Active", "couch"}

InitNeeds ==
    /\ InitStore
    /\ usda = FALSE
    /\ call = <<>>
    /\ hist = NoHistory
    /\ InitCalc

NextNeeds ==
    /\ \E k \in Calculators, person \in Persons, gender \in Genders,
          activity_level \in ActivityLevels :
          set_custom_needs(k, person.age, person.weight, person.height, gender,
                           activity_level)
    /\ UNCHANGED <<storeVars, aggVars, hist>>

SpecNeeds == InitNeeds /\ [][NextNeeds]_vars

\* the foods of the model, the meals made of them and the foods on offer
rice == Food("rice", 100, 200, 10, 30, 5, 1)
broth == Food("broth", 33, 9, 1, 1, 0, 0)
beans == Food("beans", 50, 120, 8, 20, 0, 6)
Foods == {rice, broth, beans}
Meals == SeqsUpTo(Foods, MaxFoods)
Offers == SeqsUpTo(Foods, MaxFoods) \cup {<<broth, rice, beans, rice>>}

\* the intake so far, in hundredths: nothing, everything, everything but
\* the protein, everything but the fiber
Intake(calories, protein, carbs, fats, fiber) ==
    [calories |-> calories, protein |-> protein, carbs |-> carbs, fats |-> fats,
     fiber |-> fiber]
Intakes ==
    {Intake(0, 0, 0, 0, 0), Intake(1000000, 100000, 100000, 100000, 100000),
     Intake(1000000, 0, 100000, 100000, 100000),
     Intake(1000000, 100000, 100000, 100000, 0)}

NextCalc ==
    \/ /\ \E k \in Calculators, activity_level \in {"sedentary", "active"} :
             set_custom_needs(k, 30, 70, 175, "male", activity_level)
       /\ UNCHANGED <<storeVars, aggVars, hist>>
    \/ /\ \E k \in Calculators, foods \in Meals : calculate_meal_balance(k, foods)
       /\ UNCHANGED <<storeVars, aggVars, hist>>
    \/ /\ \E k \in Calculators, current_intake \in Intakes, foods_available \in Offers :
             suggest_foods_to_balance(k, current_intake, foods_available)
       /\ UNCHANGED <<storeVars, aggVars, hist>>

SpecCalc == InitNeeds /\ [][NextCalc]_vars

-----------------------------------------------------------------------------
(* Properties of the store *)

Range(s) == {s[k] : k \in 1..Len(s)}

\* the documented sort key: row r may stand before row s
KeyOrder(r, s) ==
    \/ r.meals_without > s.meals_without
    \/ /\ r.meals_without = s.meals_without
       /\ \/ r.last_used_date = NULL
          \/ s.last_used_date # NULL /\ r.last_used_date <= s.last_used_date

\* C1: get_items_to_use returns the stored items by meals_without descending
\* and, among equal meals_without, by last_used_date ascending with the
\* never-used items first; it leaves out only items that may stand after
\* every returned one.
C1_RotationOrder ==
    last.op = "get_items_to_use" =>
        LET out == last.out
            n == Len(last.out)
        IN  /\ n = Min2(last.arg, Cardinality(DOMAIN sess))
            /\ \A i \in 1..n : out[i] \in DOMAIN sess
            /\ \A i, j \in 1..n :
                  i < j => out[i] # out[j] /\ KeyOrder(sess[out[i]], sess[out[j]])
            /\ \A i \in 1..n : \A x \in DOMAIN sess \ Range(out) :
                  KeyOrder(sess[out[i]], sess[x])

\* the example of the specification, with the counters [1, 0, 1] for
\* [3, 1, 3]: item 1 never used, item 3 used before item 2; listed 1, 3, 2
C1_Witness ==
    /\ last.op = "get_items_to_use"
    /\ DOMAIN sess = {1, 2, 3}
    /\ sess[1].meals_without = sess[3].meals_without
    /\ sess[2].meals_without < sess[1].meals_without
    /\ sess[1].last_used_date = NULL
    /\ sess[3].last_used_date # NULL
    /\ sess[3].last_used_date < sess[2].last_used_date
    /\ last.out = <<1, 3, 2>>

\* C2, as claimed: get_items_to_use(1) right after mark_as_used(id) of a
\* stored item never returns that id.
C2_NeverFirst ==
    (last.op = "get_items_to_use" /\ last.arg = 1 /\ last.after # 0) =>
        last.out # <<last.after>>

\* some other stored item has a counter above zero, was never used, or was
\* last used strictly before item id
Outranked(rows, id) ==
    \E j \in DOMAIN rows \ {id} :
        \/ rows[j].meals_without > 0
        \/ rows[j].last_used_date = NULL
        \/ rows[j].last_used_date < rows[id].last_used_date

\* C2, amended: get_items_to_use(1) right after mark_as_used(id) does not
\* return that id when another stored item has meals_without above zero, was
\* never used, or was last used strictly earlier.
C2_NotFirstWhenOutranked ==
    (/\ last.op = "get_items_to_use"
     /\ last.arg = 1
     /\ last.after # 0
     /\ Outranked(sess, last.after)) =>
        last.out # <<last.after>>

C2_Witness ==
    /\ last.op = "get_items_to_use"
    /\ last.arg = 1
    /\ last.after # 0
    /\ Outranked(sess, last.after)
    /\ Len(last.out) = 1

\* C3: a completed increment_meals_without(exclude_ids) adds exactly 1 to the
\* counter of every stored item outside exclude_ids and leaves every other
\* field and every excluded item as it was; done twice from any reachable
\* store it adds exactly 2.
C3_IncrementStep ==
    (last'.op = "increment_meals_without" /\ last'.ok) =>
        /\ DOMAIN sess' = DOMAIN sess
        /\ \A i \in DOMAIN sess :
              IF i \in last'.excl
              THEN sess'[i] = sess[i]
              ELSE sess'[i] =
                     [sess[i] EXCEPT !.meals_without = sess[i].meals_without + 1]

C3_Twice ==
    \A excl \in SUBSET DOMAIN sess :
        LET once == Incremented(sess, Selected(sess, excl))
            twice == Incremented(once, Selected(once, excl))
        IN  \A i \in DOMAIN sess :
              twice[i].meals_without =
                 sess[i].meals_without + (IF i \in excl THEN 0 ELSE 2)

\* C3: every completed increment_meals_without step adds exactly 1 to the
\* non-excluded counters only, and two of them in a row add exactly 2.
C3_IncrementsByOne == [][C3_IncrementStep]_vars /\ []C3_Twice

C3_Witness ==
    /\ last.op = "increment_meals_without"
    /\ last.ok
    /\ \E i \in DOMAIN sess : i \in last.excl
    /\ \E j \in DOMAIN sess : j \notin last.excl /\ sess[j].meals_without = 2

\* C4: the committed counters only move by a whole increment_meals_without:
\* whenever the committed counter of an item goes up, the step is a completed
\* increment_meals_without and every committed item it selects goes up by
\* exactly 1.
C4_AllOrNothing ==
    [][(\E i \in DOMAIN db \cap DOMAIN db' :
            db'[i].meals_without > db[i].meals_without) =>
        /\ last'.op = "increment_meals_without"
        /\ last'.ok
        /\ DOMAIN db' = DOMAIN db
        /\ \A j \in DOMAIN db :
              db'[j].meals_without =
                 db[j].meals_without + (IF j \in last'.excl THEN 0 ELSE 1)]_vars

\* C8: add_item never stores an item with an empty name or a negative
\* quantity (such a call raises and leaves the store as it was).
C8_RejectsMalformed ==
    (last.op = "add_item" /\ last.ok) =>
        /\ db[last.out[1]].name # ""
        /\ db[last.out[1]].quantity >= 0

\* C9: every stored item has a non-empty name and a non-negative quantity.
C9_ValidItems ==
    \A i \in DOMAIN db : db[i].name # "" /\ db[i].quantity >= 0

C10_AddStep ==
    last'.op = "add_item" =>
        LET id == last'.out[1] IN
        /\ id \notin DOMAIN sess
        /\ issued \subseteq DOMAIN sess => id \notin issued
        /\ DOMAIN sess' = DOMAIN sess \cup {id}
        /\ sess'[id].meals_without = 0
        /\ sess'[id].last_used_date = NULL
        /\ \A j \in DOMAIN sess : sess'[j] = sess[j]

C10_Listing ==
    last.op = "get_all_items" =>
        /\ Range(last.out) = DOMAIN sess
        /\ Len(last.out) = Cardinality(DOMAIN sess)
        /\ issued \subseteq DOMAIN sess => Range(last.out) = issued

-----------------------------------------------------------------------------
(* Properties of the aggregator *)

\* by the contract: the exchange brought a record whose calories are a number
\* above zero
Usable(resp) ==
    /\ resp.kind = "item"
    /\ resp.nutriments = "dict"
    /\ resp.kcal.tag = "num"
    /\ resp.kcal.v > 0

\* the providers in configured order
Providers(u) ==
    IF u THEN <<"Open Food Facts", "USDA FoodData Central">>
    ELSE <<"Open Food Facts">>

InOrder(q, u) ==
    /\ Len(q) <= Len(Providers(u))
    /\ \A k \in 1..Len(q) : q[k].provider = Providers(u)[k]

\* C5: a get_nutrition_info that returns gives the record of the first
\* provider, in configured order, whose record has calories above zero
\* (zero or missing calories count as no data), and None when no configured
\* provider has one.
C5_FirstAccepted ==
    (call.op = "get_nutrition_info" /\ ~call.raised) =>
        LET q == call.queried
            good == {k \in 1..Len(q) : Usable(q[k].resp)}
        IN  /\ InOrder(q, usda)
            /\ IF good # {}
               THEN LET k == CHOOSE x \in good : \A y \in good : x <= y
                    IN  call.result = Record(q[k].provider, q[k].resp.kcal)
               ELSE call.result = None /\ Len(q) = Len(Providers(usda))

\* Open Food Facts brings calories 0, USDA calories 120: USDA's record
C5_Witness ==
    /\ call.op = "get_nutrition_info"
    /\ ~call.raised
    /\ Len(call.queried) = 2
    /\ call.queried[1].resp = Response("item", "dict", Num(0))
    /\ call.result = Record("USDA FoodData Central", Num(120))

\* C6: the exchanges of one get_nutrition_info follow the configured order,
\* one per provider, none after a provider whose record was accepted, and a
\* call that returns stops early only at an accepted record, which it returns.
C6_QueriesArePrefix ==
    call.op = "get_nutrition_info" =>
        LET q == call.queried
            n == Len(call.queried)
        IN  /\ n >= 1
            /\ InOrder(q, usda)
            /\ \A k \in 1..(n - 1) : ~Usable(q[k].resp)
            /\ ~call.raised /\ n < Len(Providers(usda)) => Usable(q[n].resp)
            /\ ~call.raised /\ Usable(q[n].resp) =>
                  call.result = Record(q[n].provider, q[n].resp.kcal)

\* USDA is configured and never asked: Open Food Facts was accepted
C6_Witness ==
    /\ call.op = "get_nutrition_info"
    /\ usda
    /\ Len(call.queried) = 1
    /\ Usable(call.queried[1].resp)
    /\ call.result = Record("Open Food Facts", Num(120))

\* C7: get_nutrition_info and get_detailed_info never raise, and report None
\* only after every configured provider was asked.
C7_NeverSurfaces ==
    call.op \in {"get_nutrition_info", "get_detailed_info"} =>
        /\ ~call.raised
        /\ call.result = None =>
              \A k \in 1..Len(Providers(usda)) :
                 \E m \in 1..Len(call.queried) :
                    call.queried[m].provider = Providers(usda)[k]

-----------------------------------------------------------------------------
(* Properties of the single store operations *)

\* C11: mark_as_used(id) of a stored item sets its meals_without to 0 and its
\* last_used_date to the time of the call and returns the item; the item's
\* other fields and every other item stay as they were.
C11_MarkOnlyResets ==
    [][(last'.op = "mark_as_used" /\ last'.arg \in DOMAIN sess) =>
        /\ last'.out = <<last'.arg>>
        /\ clock' >= clock
        /\ DOMAIN sess' = DOMAIN sess
        /\ \A i \in DOMAIN sess :
              sess'[i] = IF i = last'.arg
                         THEN [sess[i] EXCEPT !.meals_without = 0,
                                              !.last_used_date = clock']
                         ELSE sess[i]]_vars

\* item last.arg was marked at time 2; another item, used at time 1 and
\* passed over since, kept its counter and its date
C11_Witness ==
    /\ last.op = "mark_as_used"
    /\ last.out = <<last.arg>>
    /\ sess[last.arg].meals_without = 0
    /\ sess[last.arg].last_used_date = 2
    /\ \E j \in DOMAIN sess \ {last.arg} :
          sess[j].meals_without > 0 /\ sess[j].last_used_date = 1

ReadOps == {"get_all_items", "get_item_by_name", "get_items_to_use"}

\* C12: an item's last_used_date changes and its meals_without goes down (to
\* 0) only in a mark_as_used of that item, its meals_without goes up (by 1)
\* only in an increment_meals_without; add_item, update_quantity, delete_item
\* and the three reads leave both fields of every remaining item alone.
C12_OnlyMarkAndIncrement ==
    [][\A i \in DOMAIN sess \cap DOMAIN sess' :
        /\ sess'[i].last_used_date # sess[i].last_used_date =>
              last'.op = "mark_as_used" /\ last'.arg = i
        /\ sess'[i].meals_without < sess[i].meals_without =>
              last'.op = "mark_as_used" /\ last'.arg = i /\ sess'[i].meals_without = 0
        /\ sess'[i].meals_without > sess[i].meals_without =>
              /\ last'.op = "increment_meals_without"
              /\ sess'[i].meals_without = sess[i].meals_without + 1
        /\ last'.op \in {"add_item", "update_quantity", "delete_item"} \cup ReadOps =>
              /\ sess'[i].meals_without = sess[i].meals_without
              /\ sess'[i].last_used_date = sess[i].last_used_date]_vars

\* update_quantity of an item that has a counter and a date, both still there
C12_Witness ==
    /\ last.op = "update_quantity"
    /\ last.out = <<last.arg>>
    /\ sess[last.arg].meals_without > 0
    /\ sess[last.arg].last_used_date # NULL

\* C13: update_quantity, mark_as_used and delete_item of an id that is not
\* stored return the not-found value (None, None, False: no row) and leave
\* the store as it was.
C13_MissingIdChangesNothing ==
    [][(/\ last'.op \in {"update_quantity", "mark_as_used", "delete_item"}
        /\ last'.arg \notin DOMAIN sess) =>
        /\ last'.out = <<>>
        /\ sess' = sess
        /\ db' = db
        /\ clock' = clock]_vars

C13_Witness ==
    /\ last.op \in {"update_quantity", "mark_as_used", "delete_item"}
    /\ last.arg \notin DOMAIN sess
    /\ last.out = <<>>
    /\ DOMAIN sess = {1, 2}

C14_DeleteStep ==
    last'.op = "delete_item" =>
        /\ last'.out # <<>> <=> last'.arg \in DOMAIN sess
        /\ DOMAIN sess' = DOMAIN sess \ {last'.arg}
        /\ \A j \in DOMAIN sess' : sess'[j] = sess[j]

C14_GoneFromReads ==
    /\ (last.op = "delete_item" /\ last'.op \in ReadOps) =>
          \A k \in 1..Len(last'.out) : last'.out[k] # last.arg
    /\ \A i \in DOMAIN sess' \ DOMAIN sess :
          last'.op = "add_item" /\ last'.out = <<i>>

C14_ReadsStored ==
    last.op \in ReadOps => \A k \in 1..Len(last.out) : last.out[k] \in DOMAIN sess

\* C14: delete_item(id) returns True exactly when id was stored; it removes
\* that row and no other and changes no other row; the reads return stored
\* rows only, so none returns the id after the delete, and only an add_item
\* that is handed the id brings a row with it into the store again.
C14_HardDelete ==
    [][C14_DeleteStep /\ C14_GoneFromReads]_vars /\ []C14_ReadsStored

\* item 1 of two was deleted, item 2 is there
C14_Witness ==
    /\ last.op = "delete_item"
    /\ last.out = <<1>>
    /\ DOMAIN sess = {2}

\* the full rotation orders of the stored rows by the documented key
SortedAll(rows) ==
    LET n == Cardinality(DOMAIN rows) IN
    {p \in [1..n -> DOMAIN rows] :
        \A i, j \in 1..n : i < j => p[i] # p[j] /\ KeyOrder(rows[p[i]], rows[p[j]])}

\* C15: get_items_to_use(limit) with limit >= 0 on n stored items returns the
\* first min(limit, n) items of a full rotation order, never more than limit.
C15_AtMostLimit ==
    last.op = "get_items_to_use" =>
        /\ Len(last.out) <= last.arg
        /\ Len(last.out) = Min2(last.arg, Cardinality(DOMAIN sess))
        /\ \E p \in SortedAll(sess) :
              \A k \in 1..Len(last.out) : last.out[k] = p[k]

\* limit 1 on two items
C15_Witness ==
    /\ last.op = "get_items_to_use"
    /\ last.arg = 1
    /\ Cardinality(DOMAIN sess) = 2
    /\ Len(last.out) = 1

\* C16: what a completed call changed is committed when it returns (the file
\* holds what the session sees), so closing the store and opening it on the
\* same path gives the same items with the same values.
C16_Durable ==
    [][last'.op = "__init__" => sess' = sess /\ db' = db]_vars /\ [](db = sess)

\* the store reopened with an item that was used and then passed over
C16_Witness ==
    /\ last.op = "__init__"
    /\ \E i \in DOMAIN sess :
          sess[i].meals_without > 0 /\ sess[i].last_used_date # NULL

-----------------------------------------------------------------------------
(* Properties of the other aggregator operations *)

\* by the contract: the exchange brought a product at all
HasProduct(resp) == resp.kind = "item"

\* C17: a get_detailed_info that returns gives the Open Food Facts record
\* whenever Open Food Facts has a product, whatever its calories, and then
\* asks nobody else; otherwise the USDA record when USDA is configured and
\* has the food; otherwise None.
C17_FirstNonNull ==
    (call.op = "get_detailed_info" /\ ~call.raised) =>
        LET q == call.queried IN
        /\ q[1].provider = "Open Food Facts"
        /\ \A k \in 2..Len(q) : usda /\ q[k].provider = "USDA FoodData Central"
        /\ IF HasProduct(q[1].resp)
           THEN /\ Len(q) = 1
                /\ call.result = Record("Open Food Facts", GetOrZero(q[1].resp.kcal))
           ELSE IF ~usda
           THEN Len(q) = 1 /\ call.result = None
           ELSE /\ Len(q) >= 2
                /\ IF Len(q) = 3 /\ HasProduct(q[2].resp) /\ HasProduct(q[3].resp)
                   THEN call.result =
                          Record("USDA FoodData Central", GetOrZero(q[3].resp.kcal))
                   ELSE call.result = None

\* Open Food Facts has a product with calories 0 and USDA is configured
C17_Witness ==
    /\ call.op = "get_detailed_info"
    /\ usda
    /\ call.queried = <<Query("Open Food Facts", Response("item", "dict", Num(0)))>>
    /\ call.result = Record("Open Food Facts", Num(0))

\* the number of results an answer holds
Count(resp) == IF resp.kind = "list" THEN resp.n ELSE 0

\* C18: a search_foods that returns asked Open Food Facts for limit results
\* and asked USDA exactly when USDA is configured and Open Food Facts sent
\* fewer than limit, then for limit minus that many; the result is the Open
\* Food Facts results followed by the USDA results, cut to limit entries.
C18_SearchFillsUp ==
    (call.op = "search_foods" /\ ~call.raised) =>
        LET q == call.queried
            n1 == Count(call.queried[1].resp)
            n2 == IF Len(call.queried) = 2 THEN Count(call.queried[2].resp) ELSE 0
            all == [k \in 1..(n1 + n2) |->
                       IF k <= n1 THEN "Open Food Facts" ELSE "USDA FoodData Central"]
        IN  /\ q[1].provider = "Open Food Facts"
            /\ q[1].page_size = call.limit
            /\ Len(q) = (IF usda /\ n1 < call.limit THEN 2 ELSE 1)
            /\ Len(q) = 2 =>
                  /\ q[2].provider = "USDA FoodData Central"
                  /\ q[2].page_size = call.limit - n1
            /\ Len(call.result) = Min2(call.limit, n1 + n2)
            /\ \A k \in 1..Len(call.result) : call.result[k] = all[k]

\* limit 2: one result of Open Food Facts, then USDA asked for one
C18_Witness ==
    /\ call.op = "search_foods"
    /\ call.limit = 2
    /\ Len(call.queried) = 2
    /\ call.queried[1].resp = SearchResponse("list", 1)
    /\ call.queried[2].page_size = 1
    /\ call.result = <<"Open Food Facts", "USDA FoodData Central">>

\* C19: get_product_by_barcode asks Open Food Facts once and nobody else,
\* with or without USDA, and a call that returns gives the product's record,
\* or None when Open Food Facts has no product.
C19_BarcodeOnePrimary ==
    call.op = "get_product_by_barcode" =>
        /\ Len(call.queried) = 1
        /\ call.queried[1].provider = "Open Food Facts"
        /\ ~call.raised =>
              call.result = IF HasProduct(call.queried[1].resp)
                            THEN Record("Open Food Facts",
                                        GetOrZero(call.queried[1].resp.kcal))
                            ELSE None

\* USDA is configured, Open Food Facts has no product: None, USDA not asked
C19_Witness ==
    /\ call.op = "get_product_by_barcode"
    /\ usda
    /\ Len(call.queried) = 1
    /\ ~HasProduct(call.queried[1].resp)
    /\ ~call.raised
    /\ call.result = None

\* C20: without the USDA client every aggregator call asks Open Food Facts
\* only and returns (a record, a list or None); it never raises.
C20_DegradesWithoutKey ==
    (~usda /\ call.op # "__init__") =>
        /\ \A k \in 1..Len(call.queried) : call.queried[k].provider = "Open Food Facts"
        /\ ~call.raised

-----------------------------------------------------------------------------
(* Properties of the shopping list *)

\* the sum of the quantities of the entries of `entries` with this name and
\* unit
RECURSIVE Total(_, _)
Total(entries, pair) ==
    IF entries = <<>> THEN 0
    ELSE Total(Tail(entries), pair) +
         (IF <<Head(entries).name, Head(entries).unit>> = pair
          THEN Head(entries).quantity ELSE 0)

\* the quantity of the last entry of `entries` with this name and unit, 0
\* when there is none
Held(entries, pair) ==
    LET hits == {k \in 1..Len(entries) : <<entries[k].name, entries[k].unit>> = pair}
    IN  IF hits = {} THEN 0 ELSE entries[Max(hits)].quantity

PairsOf(entries) == {<<entries[k].name, entries[k].unit>> : k \in 1..Len(entries)}

\* C21: create_shopping_list returns exactly one entry for each (name, unit)
\* pair of the plan whose total required quantity exceeds the quantity held
\* for that pair, with that name, that unit and the shortfall as quantity,
\* and no other entry.
C21_OneEntryPerShortPair ==
    (calc.op = "create_shopping_list" /\ calc.done) =>
        LET plan == Flattened(calc.meal_plan)
            short == {p \in PairsOf(plan) :
                         Total(plan, p) > Held(calc.fridge_inventory, p)}
        IN  /\ Len(calc.result) = Cardinality(short)
            /\ \A p \in short :
                  \E k \in 1..Len(calc.result) :
                     calc.result[k] =
                        Entry(p[1], Total(plan, p) - Held(calc.fridge_inventory, p), p[2])

\* no other pair of the call has the same key
Unambiguous(pair, entries) ==
    \A p \in PairsOf(entries) : Key(p[1], p[2]) = Key(pair[1], pair[2]) => p = pair

\* C30: for a name and unit, create_shopping_list takes as available the
\* quantity of the last inventory entry with that name and unit (entries are
\* not added up), and as required the sum over the ingredients of all meals.
C30_LastInventoryEntryCounts ==
    (calc.op = "create_shopping_list" /\ calc.done) =>
        LET plan == Flattened(calc.meal_plan) IN
        \A p \in PairsOf(plan) :
           Unambiguous(p, plan \o calc.fridge_inventory) =>
              LET required == Total(plan, p)
                  available == Held(calc.fridge_inventory, p)
                  found == {k \in 1..Len(calc.result) :
                               Key(calc.result[k].name, calc.result[k].unit) = Key(p[1], p[2])}
              IN  /\ Cardinality(found) = (IF required > available THEN 1 ELSE 0)
                  /\ \A k \in found : calc.result[k].quantity = required - available

\* two meals with 100 g rice each, the inventory lists rice twice, 150 g and
\* then 100 g: 100 g to buy
C30_Witness ==
    /\ calc.op = "create_shopping_list"
    /\ calc.done
    /\ calc.meal_plan = <<<<Entry(Text_r, 100, Text_g)>>, <<Entry(Text_r, 100, Text_g)>>>>
    /\ calc.fridge_inventory = <<Entry(Text_r, 150, Text_g), Entry(Text_r, 100, Text_g)>>
    /\ calc.result = <<Entry(Text_r, 100, Text_g)>>

-----------------------------------------------------------------------------
(* Properties of the calculator *)

Abs(x) == IF x < 0 THEN 0 - x ELSE x

RECURSIVE Portions(_, _)
Portions(foods, nutrient) ==
    IF foods = <<>> THEN 0
    ELSE Head(foods)[nutrient] * Head(foods).quantity + Portions(Tail(foods), nutrient)

\* C23 as stated: each total is the sum of value times quantity / 100 and each
\* percentage is exactly total / daily need * 100
C23_ExactPercentages ==
    calc.op = "calculate_meal_balance" =>
        \A nutrient \in Nutrients :
            /\ calc.totals[nutrient] = Portions(calc.foods, nutrient)
            /\ calc.percentages[nutrient] * calc.daily_needs[nutrient]
                  = calc.totals[nutrient] * 10000

\* C23: each total is the sum over the foods of value per 100 g times
\* quantity / 100, and each percentage is total / daily need * 100 rounded to
\* two decimal places (no further from it than half a hundredth)
C23_RoundedPercentages ==
    calc.op = "calculate_meal_balance" =>
        \A nutrient \in Nutrients :
            /\ calc.totals[nutrient] = Portions(calc.foods, nutrient)
            /\ 2 * Abs(calc.percentages[nutrient] * calc.daily_needs[nutrient]
                         - calc.totals[nutrient] * 10000)
                  <= calc.daily_needs[nutrient]

\* 100 g of a food with 200 kcal against a need of 2000 kcal: 10.0 percent
C23_Witness ==
    /\ calc.op = "calculate_meal_balance"
    /\ calc.foods = <<rice>>
    /\ calc.daily_needs.calories = 200000
    /\ calc.totals.calories = 20000
    /\ calc.percentages.calories = 1000

\* the deficit of a nutrient in a call of suggest_foods_to_balance
Deficit(nutrient) ==
    IF calc.daily_needs[nutrient] > calc.current_intake[nutrient]
    THEN calc.daily_needs[nutrient] - calc.current_intake[nutrient] ELSE 0

\* what C24 says of the foods returned, whatever it says of the quantities:
\* nothing when no nutrient is short; else one nutrient with the largest
\* deficit, at most 3 foods on offer, with a positive content, in descending
\* order, none left out for one with less
TopOfOffer ==
    LET short == {n \in DOMAIN calc.daily_needs : Deficit(n) > 0}
        result == calc.result
        offer == calc.foods_available
    IN  IF short = {} THEN result = <<>>
        ELSE \E primary \in short :
             LET positive == {k \in 1..Len(offer) : offer[k][primary] > 0} IN
             /\ \A n \in short : Deficit(n) <= Deficit(primary)
             /\ Len(result) = Min2(3, Cardinality(positive))
             /\ \A i \in 1..Len(result) :
                   /\ result[i].nutrient = primary
                   /\ result[i].provides > 0
                   /\ \A j \in 1..(i - 1) : result[j].provides >= result[i].provides
             /\ \E from \in [1..Len(result) -> positive] :
                   /\ \A i, j \in 1..Len(result) : from[i] = from[j] => i = j
                   /\ \A i \in 1..Len(result) :
                         /\ result[i].name = offer[from[i]].name
                         /\ result[i].provides = offer[from[i]][primary]
                   /\ \A k \in positive \ {from[i] : i \in 1..Len(result)} :
                         offer[k][primary] <= result[Len(result)].provides

\* C24 as stated: the foods as above, each with the suggested quantity
\* (deficit / content per 100 g) * 100 exactly
C24_ExactQuantities ==
    calc.op = "suggest_foods_to_balance" =>
        /\ TopOfOffer
        /\ \A i \in 1..Len(calc.result) :
              calc.result[i].suggested_quantity * calc.result[i].provides
                 = Deficit(calc.result[i].nutrient) * 100

\* C24: nothing is suggested when no deficit is above zero; otherwise the
\* nutrient with the largest deficit is picked and at most 3 foods on offer
\* are returned, in descending order of their content of it, each with a
\* content above zero and with (deficit / content per 100 g) * 100 rounded to
\* two decimal places as its suggested quantity
C24_RoundedQuantities ==
    calc.op = "suggest_foods_to_balance" =>
        /\ TopOfOffer
        /\ \A i \in 1..Len(calc.result) :
              2 * Abs(calc.result[i].suggested_quantity * calc.result[i].provides
                        - Deficit(calc.result[i].nutrient) * 100)
                 <= calc.result[i].provides

\* four foods with calories on offer and nothing eaten: the three richest
C24_Witness ==
    /\ calc.op = "suggest_foods_to_balance"
    /\ calc.foods_available = <<broth, rice, beans, rice>>
    /\ calc.current_intake.calories = 0
    /\ Len(calc.result) = 3
    /\ calc.result[1].name = "rice"
    /\ calc.result[2].name = "rice"
    /\ calc.result[3].name = "beans"
    /\ calc.result[3].nutrient = "calories"

\* C25: set_custom_needs stores the profile it returns as the profile of its
\* calculator and leaves the shared default and the profile of every other
\* calculator as they were; calculate_meal_balance and
\* suggest_foods_to_balance work with the profile stored for their calculator
C25_ReplacesOwnProfile ==
    /\ [][calc'.op = "set_custom_needs" =>
            /\ needs'.inst[calc'.k] = calc'.result
            /\ \A j \in Calculators \ {calc'.k} : needs'.inst[j] = needs.inst[j]
            /\ needs'.default = needs.default]_vars
    /\ [](needs.default = DEFAULT_DAILY_NEEDS)
    /\ [](calc.op \in {"calculate_meal_balance", "suggest_foods_to_balance"} =>
            calc.daily_needs = needs.inst[calc.k])
    /\ [](calc.op = "calculate_meal_balance" =>
            \A nutrient \in Nutrients :
                2 * Abs(calc.percentages[nutrient] * needs.inst[calc.k][nutrient]
                          - calc.totals[nutrient] * 10000)
                   <= needs.inst[calc.k][nutrient])

\* calculator 1 has a profile of its own, calculator 2 the default one, and
\* a meal of calculator 1 is measured against the new profile
C25_Witness ==
    /\ calc.op = "calculate_meal_balance"
    /\ calc.k = 1
    /\ calc.foods = <<rice>>
    /\ needs.inst[1] # DEFAULT_DAILY_NEEDS
    /\ needs.inst[2] = DEFAULT_DAILY_NEEDS
    /\ calc.daily_needs = needs.inst[1]
    /\ calc.percentages.calories # 1000

\* C26: the activity coefficient is that of the table (sedentary 1.2, light
\* 1.375, moderate 1.55, active 1.725, very_active 1.9) and 1.2 for a level
\* that is not in it; the BMR is the male one when the gender is male and the
\* other one otherwise; fiber is 25 when the gender is female and 38
\* otherwise (gender and level compared without regard to case)
C26_TableAndGender ==
    calc.op = "set_custom_needs" =>
        LET male == calc.gender \in {"male", "Male"}
            female == calc.gender \in {"female", "FEMALE"}
            level == calc.activity_level
            coefficient ==
                CASE level = "sedentary" -> 1200
                  [] level = "light" -> 1375
                  [] level = "moderate" -> 1550
                  [] level \in {"active", "Active"} -> 1725
                  [] level = "very_active" -> 1900
                  [] OTHER -> 1200
            bmr == IF male
                   THEN 88362 + 13397 * calc.weight + 4799 * calc.height
                          - 5677 * calc.age
                   ELSE 447593 + 9247 * calc.weight + 3098 * calc.height
                          - 4330 * calc.age
        IN  /\ 2 * Abs(calc.result.calories * 400 - bmr * (coefficient \div 25)) <= 400
            /\ calc.result.fiber = IF female THEN 2500 ELSE 3800

\* a level that is not in the table and a gender that is neither: 1.2 times
\* the BMR of the second formula (1808.56 kcal), fiber 38
C26_Witness ==
    /\ calc.op = "set_custom_needs"
    /\ calc.activity_level = "couch"
    /\ calc.gender = "other"
    /\ calc.age = 30 /\ calc.weight = 70 /\ calc.height = 175
    /\ calc.result.calories = 180856
    /\ calc.result.fiber = 3800

-----------------------------------------------------------------------------
(* Properties of the rotation over the meals *)

\* C27: the meals_without of every stored item is at or above zero and is the
\* number of increment_meals_without calls (those made, or else those that
\* returned) since the item was added or last marked as used whose
\* exclude_ids did not hold its id
C27_CountsMealsPassedOver ==
    /\ \A i \in DOMAIN db : db[i].meals_without >= 0
    /\ \/ \A i \in DOMAIN db : db[i].meals_without = hist.made[i]
       \/ \A i \in DOMAIN db : db[i].meals_without = hist.returned[i]

\* C28: once the items of a set U were marked as used and
\* increment_meals_without(U) has followed, a get_items_to_use whose limit is
\* at least the number of stored items lists all of them, every item outside
\* U before every item of U
C28_UnusedBeforeUsed ==
    (/\ last.op = "get_items_to_use"
     /\ hist.served # <<>>
     /\ last.arg >= Cardinality(DOMAIN sess)) =>
        LET U == hist.served[1]
            out == last.out
        IN  /\ {out[i] : i \in 1..Len(out)} = DOMAIN sess
            /\ \A i, j \in 1..Len(out) : (out[i] \in U /\ out[j] \notin U) => j < i

\* item 1 of two was used in the meal: item 2 is listed first
C28_Witness ==
    /\ last.op = "get_items_to_use"
    /\ last.arg >= Cardinality(DOMAIN sess)
    /\ hist.served = <<{1}>>
    /\ DOMAIN sess = {1, 2}
    /\ last.out = <<2, 1>>

\* C29: over a fixed set of n items, when each meal marks the first item of
\* get_items_to_use(1) as used and passes over the others, every item has
\* been marked as used once n meals were made, whatever the store was at the
\* start
C29_NoStarvation ==
    /\ hist.fed \subseteq DOMAIN sess
    /\ Cardinality(hist.fed) = hist.meals
    /\ hist.meals = Cardinality(DOMAIN sess) => hist.fed = DOMAIN sess

\* three items, three meals, each item used in one of them
C29_Witness ==
    /\ DOMAIN sess = 1..3
    /\ hist.meals = 3
    /\ hist.fed = 1..3
    /\ last.op = "increment_meals_without"

====
